---- MODULE Spec2Model ----
(***************************************************************************)
(* The data ingestion, join, filter and aggregation pipeline of the two    *)
(* Mondaq dashboards (mondaq_dashboard_master.py, mondaq_dashboard_app.py) *)
(* as a state machine.  One behaviour is a session of one script: the      *)
(* three CSV exports are fixed in the initial state, every action is one   *)
(* section of the script (load_data, the sidebar, the KPI row, one tab),   *)
(* and a widget interaction restarts the script from the top, as Streamlit *)
(* does.  An uncaught exception ends the pass (pc = "failed").             *)
(*                                                                         *)
(* Cell values are integers.  NaN is the missing marker (NaN, NaT, empty   *)
(* cell); Unparsable is a non-empty date cell pandas cannot parse.  A      *)
(* timestamp is a number of hours; a calendar month is taken as 30 days.   *)
(***************************************************************************)
EXTENDS Integers, Sequences, FiniteSets, TLC

VARIABLES
    script,            \* "master" or "app": which dashboard is running
    reader_csv,        \* Reader-MondaqAnalytics.csv  (rows, labels stripped)
    article_csv,       \* Article-MondaqAnalytics.csv [cols, rows]
    author_csv,        \* Author-MondaqAnalytics.csv  [cols, rows]
    cached,            \* st.cache_data holds load_data's result
    reader_df,         \* load_data()[0]
    merged_df,         \* load_data()[1]: [cols, rows]
    date_input,        \* widget state: <<>> (untouched) or <<start, end>>
    country_input,     \* widget state: [touched, val]
    industry_input,    \* widget state: [touched, val]
    company_input,     \* widget state: [touched, val]
    start_date,
    end_date,
    country_filter,
    industry_filter,
    filtered_articles, \* sequence of merged rows
    filtered_readers,  \* sequence of reader rows
    pc,                \* the section of the script that runs next
    views,             \* what this pass has rendered: view name -> content
    error              \* "none" or the exception that ended the pass

vars == <<script, reader_csv, article_csv, author_csv, cached, reader_df,
          merged_df, date_input, country_input, industry_input, company_input,
          start_date, end_date, country_filter, industry_filter,
          filtered_articles, filtered_readers, pc, views, error>>

inputs == <<script, reader_csv, article_csv, author_csv>>
loaded == <<cached, reader_df, merged_df>>
widgets == <<date_input, country_input, industry_input, company_input>>
filters == <<start_date, end_date, country_filter, industry_filter,
             filtered_articles, filtered_readers>>

-----------------------------------------------------------------------------
(* Values *)

NaN == -1
Unparsable == -2

IsNull(v) == v = NaN

\* pd.to_datetime(column, errors='coerce'): what cannot be parsed becomes NaT
ToDatetimeCoerce(v) == IF v = Unparsable THEN NaN ELSE v

\* pd.to_datetime(date) of a date_input value: midnight of that day
ToTimestamp(d) == d * 24

\* Series.dt.to_period('M'), .dt.day_name() (0 = Monday), .dt.hour
MonthOf(t) == (t \div 24) \div 30
DayOf(t) == (t \div 24) % 7
HourOf(t) == t % 24

\* comparisons with NaT are False
Ge(a, b) == ~IsNull(a) /\ ~IsNull(b) /\ a >= b
Le(a, b) == ~IsNull(a) /\ ~IsNull(b) /\ a =< b

-----------------------------------------------------------------------------
(* Sequences *)

Range(s) == {s[i] : i \in DOMAIN s}

Min(a, b) == IF a < b THEN a ELSE b

SetMin(S) == CHOOSE x \in S : \A y \in S : x =< y
SetMax(S) == CHOOSE x \in S : \A y \in S : x >= y

RECURSIVE SeqSum(_)
SeqSum(s) == IF s = <<>> THEN 0 ELSE Head(s) + SeqSum(Tail(s))

RECURSIVE Flatten(_)
Flatten(ss) == IF ss = <<>> THEN <<>> ELSE Head(ss) \o Flatten(Tail(ss))

Take(n, s) == SubSeq(s, 1, Min(n, Len(s)))

\* sorted(set): ascending
RECURSIVE SortedSeq(_)
SortedSeq(S) == IF S = {} THEN <<>>
                ELSE LET m == SetMin(S) IN <<m>> \o SortedSeq(S \ {m})

\* the distinct non-null values of a column in order of first appearance
RECURSIVE Unique(_)
Unique(col) ==
    IF col = <<>> THEN <<>>
    ELSE LET front == SubSeq(col, 1, Len(col) - 1)
             last == col[Len(col)]
             u == Unique(front)
         IN IF IsNull(last) \/ last \in Range(u) THEN u ELSE Append(u, last)

Count(col, v) == Cardinality({i \in DOMAIN col : col[i] = v})

Column(rows, c) == [i \in DOMAIN rows |-> rows[i][c]]

\* a stable sort, descending by the second component of each pair
RECURSIVE InsertDesc(_, _)
InsertDesc(x, sorted) ==
    IF sorted = <<>> THEN <<x>>
    ELSE IF Head(sorted)[2] >= x[2] THEN <<Head(sorted)>> \o InsertDesc(x, Tail(sorted))
    ELSE <<x>> \o sorted

RECURSIVE SortDesc(_)
SortDesc(s) == IF s = <<>> THEN <<>>
               ELSE InsertDesc(s[Len(s)], SortDesc(SubSeq(s, 1, Len(s) - 1)))

\* Series.value_counts(): the distinct non-null values with their numbers of
\* occurrences, most frequent first, equal counts in order of first appearance
\* (the order pandas gives for the short series modelled here)
ValueCounts(col) ==
    LET u == Unique(col)
    IN SortDesc([i \in DOMAIN u |-> <<u[i], Count(col, u[i])>>])

\* Series.nlargest(n) (keep='first') of a series of <<label, value>> pairs
NLargest(n, s) == Take(n, SortDesc(s))

\* the elements of s at the positions where p holds, in order
RECURSIVE Where(_, _)
Where(s, p) ==
    IF s = <<>> THEN <<>>
    ELSE IF Head(p) THEN <<Head(s)>> \o Where(Tail(s), Tail(p))
    ELSE Where(Tail(s), Tail(p))

\* GroupSum with count() in place of sum()
GroupCount(keys, vals) ==
    LET groups == SortedSeq(Range(keys) \ {NaN})
    IN [g \in DOMAIN groups |->
          <<groups[g], Len(Where(vals, [i \in DOMAIN keys |-> keys[i] = groups[g]]))>>]

\* vals.groupby(keys).sum(): one <<key, sum>> per distinct non-null key, keys
\* ascending; rows whose key is null are in no group
GroupSum(keys, vals) ==
    LET groups == SortedSeq(Range(keys) \ {NaN})
    IN [g \in DOMAIN groups |->
          <<groups[g], SeqSum(Where(vals, [i \in DOMAIN keys |-> keys[i] = groups[g]]))>>]

\* Series.idxmax(): the label of the first maximum of a non-empty series
IdxMax(s) ==
    LET i == CHOOSE i \in DOMAIN s :
                 /\ \A j \in DOMAIN s : s[j][2] =< s[i][2]
                 /\ \A j \in 1..(i - 1) : s[j][2] < s[i][2]
    IN s[i][1]

\* groupby(Date.dt.to_period('M'))['Article Reads'].sum().reset_index()
ToPeriodM(dates) ==
    [i \in DOMAIN dates |-> IF IsNull(dates[i]) THEN NaN ELSE MonthOf(dates[i])]

MonthlySum(rows) ==
    GroupSum(ToPeriodM(Column(rows, "Date")), Column(rows, "Article Reads"))

\* rows.groupby(key)['Article Reads'].sum()
ReadsBy(rows, key) == GroupSum(Column(rows, key), Column(rows, "Article Reads"))

-----------------------------------------------------------------------------
(* load_data *)

KeyCol == "Author Id"

\* DataFrame.merge(..., suffixes=...): a label other than the key that both
\* tables have gets the suffix of its side
Suffixed(c, other, suffix) ==
    IF c # KeyCol /\ c \in other THEN c \o suffix ELSE c

\* DataFrame.rename(columns={...}): labels that are absent are ignored
Renamed(c) ==
    IF c = "Reads_article" THEN "Article Reads"
    ELSE IF c = "Author Name_article" THEN "Author Name"
    ELSE c

ArticleLabel(c, L, R) == Renamed(Suffixed(c, R, "_article"))
AuthorLabel(c, L, R) == Renamed(Suffixed(c, L, "_author"))

MergedCols(L, R) ==
    {ArticleLabel(c, L, R) : c \in L} \cup {AuthorLabel(c, L, R) : c \in R \ {KeyCol}}

\* one output row: the article row a with the author row b beside it, or with
\* missing markers in the author columns when a has no match
MergedRow(a, matched, b, L, R) ==
    [m \in MergedCols(L, R) |->
        IF \E c \in L : ArticleLabel(c, L, R) = m
        THEN a[CHOOSE c \in L : ArticleLabel(c, L, R) = m]
        ELSE IF matched
             THEN b[CHOOSE c \in R \ {KeyCol} : AuthorLabel(c, L, R) = m]
             ELSE NaN]

\* the author rows an article row joins with, in the author table's order
Matches(a, authors) == SelectSeq(authors, LAMBDA b : b[KeyCol] = a[KeyCol])

\* article_df.merge(author_df, on='Author Id', how='left', suffixes=...)
\*           .rename(columns={...})
Merge(article, author) ==
    LET L == article.cols
        R == author.cols
        Out(a) == LET m == Matches(a, author.rows)
                  IN IF m = <<>> THEN <<MergedRow(a, FALSE, a, L, R)>>
                     ELSE [j \in DOMAIN m |-> MergedRow(a, TRUE, m[j], L, R)]
    IN [cols |-> MergedCols(L, R),
        rows |-> Flatten([i \in DOMAIN article.rows |-> Out(article.rows[i])])]

\* df[c] = pd.to_datetime(df[c], errors='coerce')
ParseDates(rows, c) ==
    [i \in DOMAIN rows |-> [rows[i] EXCEPT ![c] = ToDatetimeCoerce(@)]]

\* pd.to_datetime(column) with the default errors='raise'
RaisesOnParse(rows, c) == \E i \in DOMAIN rows : rows[i][c] = Unparsable

NextAfterLoad == IF script = "master" THEN "sidebar" ELSE "reader"

NoViews == <<>>

\* load_data of the master dashboard, behind st.cache_data
load_data_master ==
    /\ reader_df' = ParseDates(reader_csv, "Last Access Date")
    /\ merged_df' = Merge([article_csv EXCEPT !.rows = ParseDates(@, "Date")],
                          author_csv)
    /\ cached' = TRUE
    /\ pc' = NextAfterLoad
    /\ error' = "none"

\* load_data of the first dashboard: the dates are parsed after the merge,
\* without errors='coerce', and Last Access Date is left as read
load_data_app ==
    LET m == Merge(article_csv, author_csv)
    IN IF RaisesOnParse(m.rows, "Date")
       THEN /\ pc' = "failed"
            /\ error' = "ValueError"
            /\ UNCHANGED loaded
       ELSE /\ reader_df' = reader_csv
            /\ merged_df' = m
            /\ cached' = TRUE
            /\ pc' = NextAfterLoad
            /\ error' = "none"

load_data ==
    /\ pc = "load"
    /\ IF cached
       THEN /\ pc' = NextAfterLoad
            /\ UNCHANGED <<loaded, error>>
       ELSE IF script = "master" THEN load_data_master ELSE load_data_app
    /\ UNCHANGED <<inputs, widgets, filters, views>>

-----------------------------------------------------------------------------
(* The script below load_data *)

MaxDay == 2
MaxJoinRows == 2
MaxArticles == 2
MaxReaders == 2
MaxMonth == 2
MaxMonthlyArticles == 3
MaxForecastMonth == 5
MaxHeatmapReaders == 2
MaxDistinct == 11

TopN == 10
CompanyTopN == 5
MinForecastPoints == 6
ForecastPeriods == 3
VideoTag == 1

Put(name, content) == views @@ (name :> content)

HasCol(df, c) == c \in df.cols

\* the date of a timestamp, as st.date_input returns it
DateOf(t) == t \div 24

ValidDates(rows) == {rows[i]["Date"] : i \in DOMAIN rows} \ {NaN}

\* FilterArticles with the end of the interval left out
FilterArticlesOpenEnd(rows, start, end) ==
    SelectSeq(rows, LAMBDA r : /\ Ge(r["Date"], ToTimestamp(start))
                               /\ Le(r["Date"], ToTimestamp(end))
                               /\ r["Date"] # ToTimestamp(end))

\* merged_df[(Date >= pd.to_datetime(start)) & (Date <= pd.to_datetime(end))]
FilterArticles(rows, start, end) ==
    SelectSeq(rows, LAMBDA r : /\ Ge(r["Date"], ToTimestamp(start))
                               /\ Le(r["Date"], ToTimestamp(end)))

\* FilterReaders with | in place of &
FilterReadersEither(rows, countries, industries) ==
    SelectSeq(rows, LAMBDA r : \/ r["Country"] \in countries
                               \/ r["Industry"] \in industries)

\* reader_df[Country.isin(country_filter) & Industry.isin(industry_filter)]
FilterReaders(rows, countries, industries) ==
    SelectSeq(rows, LAMBDA r : /\ r["Country"] \in countries
                               /\ r["Industry"] \in industries)

\* the sidebar widgets and the two filtered views.  The inputs have at least
\* one parsable article Date, from which the date range widget takes its
\* default
Sidebar ==
    /\ pc = "sidebar"
    /\ LET dates == ValidDates(merged_df.rows)
           s == IF date_input = <<>> THEN DateOf(SetMin(dates)) ELSE date_input[1]
           e == IF date_input = <<>> THEN DateOf(SetMax(dates)) ELSE date_input[2]
           cs == IF country_input.touched THEN country_input.val
                 ELSE Range(Column(reader_df, "Country"))
           ins == IF industry_input.touched THEN industry_input.val
                  ELSE Range(Column(reader_df, "Industry")) \ {NaN}
       IN /\ start_date' = s
          /\ end_date' = e
          /\ country_filter' = cs
          /\ industry_filter' = ins
          /\ filtered_articles' = FilterArticles(merged_df.rows, s, e)
          /\ filtered_readers' = FilterReaders(reader_df, cs, ins)
    /\ pc' = "kpis"
    /\ UNCHANGED <<inputs, loaded, widgets, views, error>>

ReadsSeries(rows) == [i \in DOMAIN rows |-> <<i, rows[i]["Article Reads"]>>]

\* the KPI row: four metrics, computed and shown one after the other
KPIs ==
    /\ pc = "kpis"
    /\ LET v1 == Put("Total Readers", Len(filtered_readers))
           by_author == ReadsBy(filtered_articles, "Author Name")
           reads == ReadsSeries(filtered_articles)
       IN IF ~HasCol(merged_df, "Article Reads")
          THEN /\ views' = v1
               /\ pc' = "failed"
               /\ error' = "KeyError"
          ELSE LET v2 == v1 @@ ("Total Reads" :>
                               SeqSum(Column(filtered_articles, "Article Reads")))
               IN IF by_author = <<>>
                  THEN /\ views' = v2
                       /\ pc' = "failed"
                       /\ error' = "ValueError"
                  ELSE LET v3 == v2 @@ ("Top Author" :> IdxMax(by_author))
                       IN IF reads = <<>>
                          THEN /\ views' = v3
                               /\ pc' = "failed"
                               /\ error' = "ValueError"
                          ELSE /\ views' = v3 @@ ("Top Article" :>
                                          filtered_articles[IdxMax(reads)]["Title"])
                               /\ pc' = "reader"
                               /\ error' = "none"
    /\ UNCHANGED <<inputs, loaded, widgets, filters>>

\* FrequencyTopN as value_counts(sort=False).head(n)
FrequencyTopNUnsorted(rows, c, n) ==
    LET col == Column(rows, c)
        u == Unique(col)
    IN Take(n, [i \in DOMAIN u |-> <<u[i], Count(col, u[i])>>])

\* column.value_counts().nlargest(n)
FrequencyTopN(rows, c, n) == NLargest(n, ValueCounts(Column(rows, c)))

\* tab "Reader Insights": filtered readers in the master dashboard, all
\* readers in the first one
ReaderInsights ==
    /\ pc = "reader"
    /\ LET rows == IF script = "master" THEN filtered_readers ELSE reader_df
       IN views' = views @@ ("Top Countries" :> FrequencyTopN(rows, "Country", TopN))
                         @@ ("Top Industries" :> FrequencyTopN(rows, "Industry", TopN))
                         @@ ("Top Positions" :> FrequencyTopN(rows, "Position", TopN))
    /\ pc' = "article"
    /\ UNCHANGED <<inputs, loaded, widgets, filters, error>>

\* tab "Article Insights"
ArticleInsights ==
    /\ pc = "article"
    /\ LET rows == IF script = "master" THEN filtered_articles ELSE merged_df.rows
           top == NLargest(TopN, ReadsSeries(rows))
       IN IF ~HasCol(merged_df, "Article Reads")
          THEN /\ pc' = "failed"
               /\ error' = "KeyError"
               /\ UNCHANGED views
          ELSE /\ views' = views
                     @@ ("top_articles" :>
                            [i \in DOMAIN top |-> <<rows[top[i][1]]["Title"], top[i][2]>>])
                     @@ ("reads_over_time" :> MonthlySum(rows))
               /\ pc' = "author"
               /\ error' = "none"
    /\ UNCHANGED <<inputs, loaded, widgets, filters>>

\* groupby('Author Name').agg(count, sum, sum, sum).sort_values('Article Reads')
AuthorSummary(rows) ==
    LET by == ReadsBy(rows, "Author Name")
        Of(a) == SelectSeq(rows, LAMBDA r : r["Author Name"] = a)
    IN SortDesc([i \in DOMAIN by |->
           <<by[i][1], by[i][2], Len(Of(by[i][1])),
             SeqSum(Column(Of(by[i][1]), "Historic Reads")),
             SeqSum(Column(Of(by[i][1]), "Profile Views"))>>])

\* tab "Author Insights": the master dashboard adds the author table, the
\* first one the video-tagged articles by author
AuthorInsights ==
    /\ pc = "author"
    /\ LET rows == IF script = "master" THEN filtered_articles ELSE merged_df.rows
           v1 == Put("top_authors",
                     NLargest(TopN, ReadsBy(rows, "Author Name")))
           video == SelectSeq(rows, LAMBDA r : r["Mondaq Tags"] = VideoTag)
       IN IF ~HasCol(merged_df, "Article Reads")
          THEN /\ pc' = "failed"
               /\ error' = "KeyError"
               /\ UNCHANGED views
          ELSE /\ views' = IF script = "master"
                           THEN v1 @@ ("author_summary" :> AuthorSummary(rows))
                           ELSE v1 @@ ("video_authors" :>
                                          ValueCounts(Column(video, "Author Name")))
               /\ pc' = IF script = "master" THEN "company" ELSE "done"
               /\ error' = "none"
    /\ UNCHANGED <<inputs, loaded, widgets, filters>>

Companies(rows) == SortedSeq(Range(Column(rows, "Company Name")))

\* tab "Company Deep Dive", over the unfiltered reader table
CompanyDeepDive ==
    /\ pc = "company"
    /\ LET options == Companies(reader_df)
           selected_company == IF company_input.touched THEN company_input.val
                               ELSE IF options = <<>> THEN NaN ELSE options[1]
           company_data == SelectSeq(reader_df,
                              LAMBDA r : r["Company Name"] = selected_company)
       IN views' = views
              @@ ("selected_company" :> selected_company)
              @@ ("Company Readers" :> Len(company_data))
              @@ ("Company Reads" :> SeqSum(Column(company_data, "Reads")))
              @@ ("Company Positions" :>
                     FrequencyTopN(company_data, "Position", CompanyTopN))
    /\ pc' = "search"
    /\ UNCHANGED <<inputs, loaded, widgets, filters, error>>

\* tab "Search Tools": both text inputs are left empty, so neither search runs
SearchTools ==
    /\ pc = "search"
    /\ views' = Put("Search Tools", <<>>)
    /\ pc' = "timing"
    /\ UNCHANGED <<inputs, loaded, widgets, filters, error>>

Weekdays == <<0, 1, 2, 3, 4, 5, 6>>

\* pivot_table(index='Day', columns='Hour', values='Reads', aggfunc='sum',
\*             fill_value=0).reindex([Monday .. Sunday])
\* the pivot has a row for each day and a column for each hour that occurs;
\* a pair with no row is filled with 0; reindex then adds a row of missing
\* values for each weekday the pivot has no row for
Heatmap(readers) ==
    LET valid_times == SelectSeq(readers, LAMBDA r : ~IsNull(r["Last Access Date"]))
        days == {DayOf(valid_times[i]["Last Access Date"]) : i \in DOMAIN valid_times}
        hours == {HourOf(valid_times[i]["Last Access Date"]) : i \in DOMAIN valid_times}
        At(d, h) == SelectSeq(valid_times,
                        LAMBDA r : /\ DayOf(r["Last Access Date"]) = d
                                   /\ HourOf(r["Last Access Date"]) = h)
    IN [index |-> Weekdays,
        columns |-> SortedSeq(hours),
        cell |-> [d \in Range(Weekdays) |-> [h \in hours |->
                    IF d \in days THEN SeqSum(Column(At(d, h), "Reads")) ELSE NaN]]]

\* tab "Engagement Timing"
EngagementTiming ==
    /\ pc = "timing"
    /\ views' = Put("heatmap_data", Heatmap(reader_df))
    /\ pc' = "report"
    /\ UNCHANGED <<inputs, loaded, widgets, filters, error>>

\* tab "Report Generator": the four sheets of the workbook.  Of the sheet
\* "Top Articles" the title and its reads are kept, not Date and Author Name
ReportGenerator ==
    /\ pc = "report"
    /\ views' = Put("report_data",
          [Summary |-> [TotalReads |-> SeqSum(Column(filtered_articles, "Article Reads")),
                        UniqueArticles |-> Cardinality(Range(Column(filtered_articles, "Article Id"))),
                        UniqueReaders |-> Cardinality(Range(Column(filtered_readers, "User Id")))],
           TopArticles |-> Take(TopN, SortDesc(ReadsBy(filtered_articles, "Title"))),
           TopAuthors |-> Take(TopN, SortDesc(ReadsBy(filtered_articles, "Author Name"))),
           CountryBreakdown |-> ValueCounts(Column(filtered_readers, "Country"))])
    /\ pc' = "predict"
    /\ UNCHANGED <<inputs, loaded, widgets, filters, error>>

\* EnoughPoints with > in place of >=
EnoughPointsStrict(ts_df) == Len(ts_df) > MinForecastPoints

\* if len(ts_df) >= 6
EnoughPoints(ts_df) == Len(ts_df) >= MinForecastPoints

\* tab "Predictive Insights": Prophet is fitted on the monthly series of the
\* whole merged table and asked for ForecastPeriods more periods, or a warning
\* is shown.  What Prophet predicts is not modelled
PredictiveInsights ==
    /\ pc = "predict"
    /\ LET ts_df == MonthlySum(merged_df.rows)
       IN views' = IF EnoughPoints(ts_df)
                   THEN views @@ ("ts_df" :> ts_df)
                              @@ ("forecast" :> [fit |-> ts_df, periods |-> ForecastPeriods])
                   ELSE views @@ ("ts_df" :> ts_df)
                              @@ ("warning" :> "Not enough data to generate a forecast.")
    /\ pc' = "done"
    /\ UNCHANGED <<inputs, loaded, widgets, filters, error>>

-----------------------------------------------------------------------------
(* Widget interactions: Streamlit runs the script again from the top *)

Rendered == pc \in {"done", "failed"} /\ cached /\ script = "master"

Rerun ==
    /\ pc' = "load"
    /\ views' = NoViews
    /\ error' = "none"
    /\ start_date' = NaN
    /\ end_date' = NaN
    /\ country_filter' = {}
    /\ industry_filter' = {}
    /\ filtered_articles' = <<>>
    /\ filtered_readers' = <<>>
    /\ UNCHANGED <<inputs, loaded>>

\* st.sidebar.date_input: the user picks a pair of days
SelectDateRange ==
    /\ Rendered
    /\ \E s \in 0..MaxDay, e \in 0..MaxDay : date_input' = <<s, e>>
    /\ Rerun
    /\ UNCHANGED <<country_input, industry_input, company_input>>

\* st.sidebar.multiselect("Filter by Country", options=Country.unique())
SelectCountries ==
    /\ Rendered
    /\ \E S \in SUBSET Range(Column(reader_df, "Country")) :
           country_input' = [touched |-> TRUE, val |-> S]
    /\ Rerun
    /\ UNCHANGED <<date_input, industry_input, company_input>>

\* st.sidebar.multiselect("Filter by Industry", options=Industry.dropna().unique())
SelectIndustries ==
    /\ Rendered
    /\ \E S \in SUBSET (Range(Column(reader_df, "Industry")) \ {NaN}) :
           industry_input' = [touched |-> TRUE, val |-> S]
    /\ Rerun
    /\ UNCHANGED <<date_input, country_input, company_input>>

\* st.selectbox("Select a Company", sorted(Company Name.unique()))
SelectCompany ==
    /\ Rendered
    /\ \E c \in Range(Companies(reader_df)) :
           company_input' = [touched |-> TRUE, val |-> c]
    /\ Rerun
    /\ UNCHANGED <<date_input, country_input, industry_input>>

\* one pass of the script, section by section
Run ==
    \/ load_data
    \/ Sidebar
    \/ KPIs
    \/ ReaderInsights
    \/ ArticleInsights
    \/ AuthorInsights
    \/ CompanyDeepDive
    \/ SearchTools
    \/ EngagementTiming
    \/ ReportGenerator
    \/ PredictiveInsights

-----------------------------------------------------------------------------
(* The CSV exports *)

ArticleCols == {"Article Id", "Title", "Author Id", "Date", "Reads",
                "Historic Reads", "Profile Views", "Mondaq Tags"}
AuthorCols == {"Author Id", "Author Name"}

\* article i: its title is its id, its author's name the author's id
ArticleRow(cols, i, author, date, reads) ==
    [c \in cols |->
        CASE c = "Article Id" -> i
          [] c = "Title" -> i
          [] c = "Author Id" -> author
          [] c = "Author Name" -> author
          [] c = "Date" -> date
          [] c = "Reads" -> reads
          [] c = "Historic Reads" -> reads
          [] c = "Profile Views" -> 0
          [] c = "Mondaq Tags" -> i % 2]

AuthorRow(cols, id, name) ==
    [c \in cols |->
        CASE c = "Author Id" -> id
          [] c = "Author Name" -> name
          [] c = "Reads" -> 0]

ReaderRow(i, company, country, industry, position, last) ==
    [c \in {"User Id", "Company Name", "Country", "Industry", "Position",
            "Reads", "Last Access Date"} |->
        CASE c = "User Id" -> i
          [] c = "Company Name" -> company
          [] c = "Country" -> country
          [] c = "Industry" -> industry
          [] c = "Position" -> position
          [] c = "Reads" -> i
          [] c = "Last Access Date" -> last]

\* the exports the scripts were written for: both tables have Reads and
\* Author Name, the labels load_data renames
FullArticleCols == ArticleCols \cup {"Author Name"}
FullAuthorCols == AuthorCols \cup {"Reads"}

OneReader == <<ReaderRow(1, 1, 1, 1, 1, 0)>>
OneArticle == [cols |-> FullArticleCols,
               rows |-> <<ArticleRow(FullArticleCols, 1, 1, 0, 1)>>]
OneAuthor == [cols |-> FullAuthorCols, rows |-> <<AuthorRow(FullAuthorCols, 1, 1)>>]

Untouched == [touched |-> FALSE, val |-> {}]

\* the session starts with the files on disk, nothing loaded, no widget touched
Start(sc, readers, articles, authors) ==
    /\ script = sc
    /\ reader_csv = readers
    /\ article_csv = articles
    /\ author_csv = authors
    /\ cached = FALSE
    /\ reader_df = <<>>
    /\ merged_df = [cols |-> {}, rows |-> <<>>]
    /\ date_input = <<>>
    /\ country_input = Untouched
    /\ industry_input = Untouched
    /\ company_input = Untouched
    /\ start_date = NaN
    /\ end_date = NaN
    /\ country_filter = {}
    /\ industry_filter = {}
    /\ filtered_articles = <<>>
    /\ filtered_readers = <<>>
    /\ pc = "load"
    /\ views = NoViews
    /\ error = "none"

\* sequences over S of length lo..hi
SeqsOf(S, lo, hi) == UNION {[1..n -> S] : n \in lo..hi}

HasValidDate(cells) == \E i \in DOMAIN cells : cells[i] >= 0

-----------------------------------------------------------------------------
(* Join: both scripts, article and author tables with and without the      *)
(* labels load_data renames, author ids that occur twice or not at all     *)

InitJoin ==
    \E sc \in {"master", "app"},
       L \in {ArticleCols, FullArticleCols},
       R \in {AuthorCols, FullAuthorCols},
       arts \in SeqsOf({1, 2} \X {0, NaN, Unparsable}, 1, MaxJoinRows),
       auts \in SeqsOf({1, 2}, 0, MaxJoinRows) :
        /\ sc = "master" => HasValidDate([i \in DOMAIN arts |-> arts[i][2]])
        /\ Start(sc, OneReader,
                 [cols |-> L,
                  rows |-> [i \in DOMAIN arts |-> ArticleRow(L, i, arts[i][1], arts[i][2], i)]],
                 [cols |-> R,
                  rows |-> [i \in DOMAIN auts |-> AuthorRow(R, auts[i], 10 + i)]])

SpecJoin == InitJoin /\ [][Run]_vars

-----------------------------------------------------------------------------
(* Date filter: the master dashboard over article tables whose dates fall  *)
(* at midnight or at noon of the days the date range widget offers, or are *)
(* missing; the user picks date ranges                                     *)

DateSamples == {ToTimestamp(d) + h : d \in 0..MaxDay, h \in {0, 12}}

InitDates ==
    \E dates \in SeqsOf(DateSamples \cup {NaN}, 1, MaxArticles) :
        /\ HasValidDate(dates)
        /\ Start("master", OneReader,
                 [cols |-> FullArticleCols,
                  rows |-> [i \in DOMAIN dates |->
                               ArticleRow(FullArticleCols, i, 1, dates[i], i)]],
                 OneAuthor)

SpecDates == InitDates /\ [][Run \/ SelectDateRange]_vars

-----------------------------------------------------------------------------
(* Reader filter: the master dashboard over reader tables with two         *)
(* countries, one industry and missing values of both; the user picks      *)
(* countries, industries and date ranges                                   *)

InitReaders ==
    \E rs \in SeqsOf({1, 2, NaN} \X {1, NaN}, 1, MaxReaders) :
        Start("master",
              [i \in DOMAIN rs |-> ReaderRow(i, 1, rs[i][1], rs[i][2], 1, 0)],
              OneArticle, OneAuthor)

SpecReaders ==
    InitReaders /\ [][Run \/ SelectDateRange \/ SelectCountries \/ SelectIndustries]_vars

-----------------------------------------------------------------------------
(* Monthly sums: both scripts over article tables in any order, dated on   *)
(* the first or the last day of a month or not at all; article i has       *)
(* 2^(i-1) reads, so a sum tells which rows went into it                   *)

MonthSamples == {ToTimestamp(30 * m + d) : m \in 0..MaxMonth, d \in {0, 29}}

InitMonthly ==
    \E sc \in {"master", "app"},
       dates \in SeqsOf(MonthSamples \cup {NaN}, 1, MaxMonthlyArticles) :
        /\ HasValidDate(dates)
        /\ Start(sc, OneReader,
                 [cols |-> FullArticleCols,
                  rows |-> [i \in DOMAIN dates |->
                               ArticleRow(FullArticleCols, i, 1, dates[i], 2 ^ (i - 1))]],
                 OneAuthor)

SpecMonthly == InitMonthly /\ [][Run]_vars

-----------------------------------------------------------------------------
(* Forecast: the master dashboard over article tables with one article, or *)
(* two, in each month of a set of months, latest month first, and possibly *)
(* an article without a date                                               *)

InitForecast ==
    \E months \in (SUBSET (0..MaxForecastMonth)) \ {{}},
       twice \in BOOLEAN, undated \in BOOLEAN :
        LET asc == SortedSeq(months)
            n == Len(asc)
            first == [i \in 1..n |-> ToTimestamp(30 * asc[n + 1 - i])]
            second == [i \in 1..n |-> ToTimestamp(30 * asc[n + 1 - i] + 1)]
            dates == first \o (IF twice THEN second ELSE <<>>)
                           \o (IF undated THEN <<NaN>> ELSE <<>>)
        IN Start("master", OneReader,
                 [cols |-> FullArticleCols,
                  rows |-> [i \in DOMAIN dates |->
                               ArticleRow(FullArticleCols, i, 1, dates[i], 1)]],
                 OneAuthor)

SpecForecast == InitForecast /\ [][Run]_vars

-----------------------------------------------------------------------------
(* Heatmap: the master dashboard over readers last seen on Monday at 0h or *)
(* 1h, on Tuesday at 1h, on Sunday at 0h, with an empty or an unparsable   *)
(* Last Access Date; at least one reader has a Last Access Date            *)

AccessSamples == {0, 1, 25, 144}

InitHeatmap ==
    \E last \in SeqsOf(AccessSamples \cup {NaN, Unparsable}, 1, MaxHeatmapReaders) :
        /\ HasValidDate(last)
        /\ Start("master",
                 [i \in DOMAIN last |-> ReaderRow(i, 1, 1, 1, 1, last[i])],
                 OneArticle, OneAuthor)

SpecHeatmap == InitHeatmap /\ [][Run]_vars

-----------------------------------------------------------------------------
(* Frequencies: both scripts over reader tables with k distinct positions: *)
(* position v occurs once, twice if v > j, and once more if v = t.  The    *)
(* first occurrences are in the order 1..k.  The country of a reader is    *)
(* its position, readers with an odd position are in company 1, the others *)
(* in company 2; a reader without position may come last                   *)

PositionColumn(k, j, t, blank) ==
    LET once == [v \in 1..k |-> v]
        again == SelectSeq(once, LAMBDA v : v > j)
    IN once \o again \o (IF t > 0 THEN <<t>> ELSE <<>>)
            \o (IF blank THEN <<NaN>> ELSE <<>>)

InitFrequency ==
    \E sc \in {"master", "app"}, k \in 1..MaxDistinct, blank \in BOOLEAN :
    \E j \in 0..k, t \in 0..k :
        LET col == PositionColumn(k, j, t, blank)
        IN Start(sc,
                 [i \in DOMAIN col |->
                     ReaderRow(i, IF IsNull(col[i]) THEN 1 ELSE 2 - (col[i] % 2),
                               col[i], 1, col[i], 0)],
                 OneArticle, OneAuthor)

SpecFrequency == InitFrequency /\ [][Run \/ SelectCompany]_vars

-----------------------------------------------------------------------------
(* Properties *)

Shown == DOMAIN views

Filtered == pc \notin {"load", "sidebar"} /\ script = "master"

PassEnded == pc \in {"done", "failed"}

RECURSIVE SetSum(_, _)
SetSum(f, S) == IF S = {} THEN 0
                ELSE LET x == CHOOSE x \in S : TRUE IN f[x] + SetSum(f, S \ {x})

\* view holds the rows of table at the positions keep, and no other row
IsSelection(view, table, keep) ==
    /\ \A i \in DOMAIN table : i \in keep <=> table[i] \in Range(view)
    /\ Range(view) \subseteq Range(table)
    /\ Len(view) = Cardinality(keep)

\* C1: the merged view load_data returns has as many rows as the article
\* table, each article appearing in exactly one row, whatever the author
\* table holds
C1_JoinKeepsEachArticleOnce ==
    cached =>
        /\ Len(merged_df.rows) = Len(article_csv.rows)
        /\ \A i \in DOMAIN article_csv.rows :
              Cardinality({j \in DOMAIN merged_df.rows :
                  merged_df.rows[j]["Article Id"] = article_csv.rows[i]["Article Id"]}) = 1

\* one view of each of the eight tabs of the master dashboard
TabViews == {"Top Positions", "reads_over_time", "top_authors", "Company Positions",
             "Search Tools", "heatmap_data", "report_data", "ts_df"}

\* C2: when the date range the user selected leaves no article, the pass
\* still renders every one of the eight tabs
C2_EmptyFilterStaysLocal ==
    (PassEnded /\ script = "master" /\ date_input # <<>> /\ filtered_articles = <<>>)
        => TabViews \subseteq Shown

\* C3: in both scripts load_data completes whatever the date cells hold, and
\* leaves no unparsable date behind: it has become the missing marker
C3_UnparsableDateNeverFails ==
    pc # "load" =>
        /\ cached
        /\ \A i \in DOMAIN merged_df.rows : merged_df.rows[i]["Date"] # Unparsable

\* what the two multiselects hold: the user's selection, or every option
AllowedCountries ==
    IF country_input.touched THEN country_input.val
    ELSE Range(Column(reader_df, "Country"))

AllowedIndustries ==
    IF industry_input.touched THEN industry_input.val
    ELSE Range(Column(reader_df, "Industry")) \ {NaN}

InAllowed(r) == r["Country"] \in AllowedCountries /\ r["Industry"] \in AllowedIndustries

\* C4: the filtered reader view is the reader rows whose Country is among the
\* selected countries and whose Industry is among the selected industries,
\* whatever date range is selected; it is empty when either selection is
C4_ReaderFilter ==
    Filtered =>
        /\ IsSelection(filtered_readers, reader_df,
                       {i \in DOMAIN reader_df : InAllowed(reader_df[i])})
        /\ (AllowedCountries = {} \/ AllowedIndustries = {}) => filtered_readers = <<>>

C4_Witness ==
    /\ pc = "done"
    /\ country_input.touched /\ country_input.val # {}
    /\ industry_input.touched
    /\ date_input # <<>>
    /\ filtered_readers # <<>>
    /\ Len(filtered_readers) < Len(reader_df)

InRange(r) ==
    /\ r["Date"] # NaN
    /\ ToTimestamp(start_date) =< r["Date"]
    /\ r["Date"] =< ToTimestamp(end_date)

\* C5: the filtered article view is the merged rows whose Date is present and
\* lies between the start and the end of the selected range, both included
\* (each taken at midnight, as pd.to_datetime gives it); it is empty when the
\* start is after the end
C5_DateFilter ==
    Filtered =>
        /\ IsSelection(filtered_articles, merged_df.rows,
                       {i \in DOMAIN merged_df.rows : InRange(merged_df.rows[i])})
        /\ start_date > end_date => filtered_articles = <<>>

C5_Witness ==
    /\ Filtered
    /\ date_input # <<>>
    /\ \E i \in DOMAIN filtered_articles :
           filtered_articles[i]["Date"] = ToTimestamp(end_date)
    /\ \E i \in DOMAIN filtered_articles :
           filtered_articles[i]["Date"] = ToTimestamp(start_date)
    /\ Len(filtered_articles) < Len(merged_df.rows)

\* the months in which a dated row falls
MonthsOf(rows) ==
    {MonthOf(rows[i]["Date"]) : i \in {j \in DOMAIN rows : rows[j]["Date"] # NaN}}

\* C6: Prophet is invoked exactly when the monthly series of the merged table
\* has at least 6 rows, one per month in which a dated article falls; with
\* fewer the tab shows a warning, no prediction, and raises nothing
C6_ForecastThreshold ==
    /\ "forecast" \in Shown => Cardinality(MonthsOf(merged_df.rows)) >= 6
    /\ pc = "done" /\ script = "master" =>
          IF Cardinality(MonthsOf(merged_df.rows)) >= 6
          THEN "forecast" \in Shown /\ "warning" \notin Shown
          ELSE "forecast" \notin Shown /\ "warning" \in Shown /\ error = "none"

C6_Witness ==
    /\ pc = "done"
    /\ Cardinality(MonthsOf(merged_df.rows)) = 5
    /\ Len(merged_df.rows) > 6
    /\ "forecast" \notin Shown

\* C7: the merged view always has a column "Article Reads" with the article's
\* read count and a column "Author Name", whether or not the two tables share
\* a label besides Author Id
C7_CanonicalColumns ==
    cached =>
        /\ {"Article Reads", "Author Name"} \subseteq merged_df.cols
        /\ \A j \in DOMAIN merged_df.rows : \E i \in DOMAIN article_csv.rows :
              /\ merged_df.rows[j]["Article Id"] = article_csv.rows[i]["Article Id"]
              /\ merged_df.rows[j]["Article Reads"] = article_csv.rows[i]["Reads"]

SeenAt(d, h) ==
    \E i \in DOMAIN reader_df :
        /\ reader_df[i]["Last Access Date"] # NaN
        /\ DayOf(reader_df[i]["Last Access Date"]) = d
        /\ HourOf(reader_df[i]["Last Access Date"]) = h

\* C8: the heatmap's rows are Monday..Sunday in that order, and every cell of
\* a weekday and an hour at which no reader with a Last Access Date was last
\* seen holds zero
C8_HeatmapZeroFilled ==
    "heatmap_data" \in Shown =>
        LET hm == views["heatmap_data"]
        IN /\ hm.index = <<0, 1, 2, 3, 4, 5, 6>>
           /\ \A d \in 0..6 : \A h \in Range(hm.columns) :
                  ~SeenAt(d, h) => hm.cell[d][h] = 0

IsMonthlySum(series, rows) ==
    /\ {series[i][1] : i \in DOMAIN series} = MonthsOf(rows)
    /\ Len(series) = Cardinality(MonthsOf(rows))
    /\ \A i \in DOMAIN series :
          series[i][2] = SetSum([j \in DOMAIN rows |-> rows[j]["Article Reads"]],
                                {j \in DOMAIN rows : /\ rows[j]["Date"] # NaN
                                                     /\ MonthOf(rows[j]["Date"]) = series[i][1]})

\* C9: the monthly series has exactly one row for each month in which a dated
\* row of its input falls, holding the sum of Article Reads over the rows of
\* that month; other months do not appear and undated rows count nowhere
C9_MonthlySum ==
    /\ "reads_over_time" \in Shown =>
          IsMonthlySum(views["reads_over_time"],
                       IF script = "master" THEN filtered_articles ELSE merged_df.rows)
    /\ "ts_df" \in Shown => IsMonthlySum(views["ts_df"], merged_df.rows)

C9_Witness ==
    /\ "reads_over_time" \in Shown
    /\ views["reads_over_time"] = <<<<0, 5>>, <<2, 2>>>>
    /\ Len(merged_df.rows) = 3

IsTopN(top, col, n) ==
    LET values == Range(col) \ {NaN}
        kept == {top[i][1] : i \in DOMAIN top}
    IN /\ Len(top) = Min(n, Cardinality(values))
       /\ Cardinality(kept) = Len(top)
       /\ kept \subseteq values
       /\ \A i \in DOMAIN top : top[i][2] = Count(col, top[i][1])
       /\ \A i \in DOMAIN top : \A j \in DOMAIN top : i < j => top[i][2] >= top[j][2]
       /\ \A v \in values \ kept : \A i \in DOMAIN top : Count(col, v) =< top[i][2]
       /\ n > Cardinality(values) => kept = values

ReaderRows == IF script = "master" THEN filtered_readers ELSE reader_df

CompanyRows ==
    SelectSeq(reader_df, LAMBDA r : r["Company Name"] = views["selected_company"])

\* C10: a frequency top-N has min(N, number of distinct values) entries, each
\* a distinct value with its number of occurrences, in non-increasing order
\* of that number, and no value left out occurs more often than one kept
C10_FrequencyTopN ==
    /\ "Top Positions" \in Shown =>
          /\ IsTopN(views["Top Countries"], Column(ReaderRows, "Country"), 10)
          /\ IsTopN(views["Top Industries"], Column(ReaderRows, "Industry"), 10)
          /\ IsTopN(views["Top Positions"], Column(ReaderRows, "Position"), 10)
    /\ "Company Positions" \in Shown =>
          IsTopN(views["Company Positions"], Column(CompanyRows, "Position"), 5)

C10_Witness ==
    /\ "Company Positions" \in Shown
    /\ Len(views["Top Positions"]) = 10
    /\ Cardinality(Range(Column(ReaderRows, "Position")) \ {NaN}) = 11
    /\ views["Top Positions"][1][2] > views["Top Positions"][10][2]
    /\ Len(views["Company Positions"]) = 5
    /\ Cardinality(Range(Column(CompanyRows, "Position")) \ {NaN}) = 6

=============================================================================
